---- MODULE Spec2Model ----
(***************************************************************************)
(* State-machine model of the useGeminiLive hook (src/unnamed/part_000)    *)
(* and of the way App.tsx drives it.  Every ref and every piece of React   *)
(* state of the hook is a variable; every exported function, transport     *)
(* callback and await continuation is an action.  A ref holding null is 0. *)
(***************************************************************************)
EXTENDS Integers, Sequences, FiniteSets, TLC

\* ------------------------------------------------------------------ bounds
MaxSessions == 2      \* sessions there are ids for
LifeStarts == 1       \* Spec: startSession calls that pass the guard
LifeStops == 2        \* Spec: stopSession calls
MaxSwitches == 1      \* Spec: switchCamera calls
LogStarts == 2        \* SpecLog: startSession calls that pass the guard
MaxMsgs == 2          \* SpecLog: inbound messages
MaxChunks == 3        \* SpecPlay: inbound messages
MaxTime == 2          \* ticks of an output context's currentTime
MaxDur == 2           \* longest decoded chunk, in ticks
NumIds == 2           \* size of the space generateId draws from
RaceStarts == 2       \* SpecRace: startSession calls that pass the guard
RaceStops == 1        \* SpecRace: stopSession calls
RaceMsgs == 1         \* SpecRace: inbound messages
MaxMix == 2           \* SpecMix: inbound messages

Sessions == 1..MaxSessions
Durs == 1..MaxDur
Ids == 1..NumIds
Deltas == {"a", "b"}
None == "none"
Bad == "bad"

VARIABLES
  \* React state, and the values the callbacks of the last render closed over
  isConnecting, isConnected, rIsConnecting, rIsConnected, localStream,
  \* refs
  sessionPromiseRef, mediaStreamRef, inputAudioContextRef, outputAudioContextRef,
  scriptProcessorRef, outputGainNodeRef, nextStartTimeRef, audioSourcesRef,
  videoElementRef, canvasElementRef, frameIntervalRef,
  transcriptionsRef, currentInputTranscriptionRef, currentOutputTranscriptionRef,
  \* platform objects the refs point to
  transport,      \* per session: none, connecting, open, closing, failed, rejected, closed
  ctxState,       \* per audio context: none, running, closed
  ctxTime,        \* per session: currentTime of its output context
  tracks,         \* sequence of media tracks: [kind, live]
  streamTracks,   \* per stream: its track ids, in insertion order
  playing,        \* sources started and neither stopped nor ended
  timers,         \* interval timers that are still active
  \* suspended async functions
  pendingStart,   \* startSession calls awaiting getUserMedia
  pendingStop,    \* stopSession calls awaiting the session promise
  pendingSwitch,  \* switchCamera calls awaiting getUserMedia
  pendingDecode,  \* onmessage handlers awaiting decodeAudioData
  pendingFrames,  \* toBlob callbacks awaiting blobToBase64, by the session of their timer
  \* the observer: what onTranscriptionUpdate was last called with, and the number
  \* of the inbound message whose handler made that call
  observer,
  \* history
  nStarts, nStops, nSwitches, nMsgs, nSources,
  sched,          \* chunks started since the last interruption or teardown
  lagged,         \* the clock fell behind currentTime after the first chunk
  afterInterrupt, \* an interruption was handled and no chunk started since
  interruptAt,    \* number of the message whose interruption was handled last
  cleanupRuns,    \* per session: teardown passes run on its behalf
  last,           \* the step just taken
  hist            \* whether cleanupRuns and last are recorded in this behaviour

lifeVars == <<isConnecting, isConnected, localStream, sessionPromiseRef, mediaStreamRef,
              inputAudioContextRef, outputAudioContextRef, scriptProcessorRef,
              videoElementRef, canvasElementRef, frameIntervalRef>>
renderVars == <<rIsConnecting, rIsConnected>>
playVars == <<nextStartTimeRef, audioSourcesRef>>
logVars == <<transcriptionsRef, currentInputTranscriptionRef, currentOutputTranscriptionRef,
             observer>>
envVars == <<ctxState, tracks, streamTracks, playing, timers>>
contVars == <<pendingStart, pendingStop, pendingSwitch, pendingDecode>>
countVars == <<nStarts, nStops, nSwitches, nMsgs, nSources>>
histVars == <<sched, lagged, afterInterrupt, interruptAt, cleanupRuns>>

vars == <<lifeVars, renderVars, playVars, logVars, envVars, contVars, countVars, histVars,
          outputGainNodeRef, transport, ctxTime, pendingFrames, last, hist>>

\* the variables that make up the program's state (no history)
progVars == <<lifeVars, renderVars, playVars, logVars, envVars, contVars,
              outputGainNodeRef, transport, ctxTime, pendingFrames>>

\* ------------------------------------------------------------------ helpers
Max(a, b) == IF a >= b THEN a ELSE b

RECURSIVE SumDur(_, _)
SumDur(s, n) == IF n = 0 THEN 0 ELSE s[n].dur + SumDur(s, n - 1)

inCtx(k) == 2 * k - 1
outCtx(k) == 2 * k

\* the step just taken: its name, the session it is for, the release calls it made
Record(op, k, rel, arg) ==
  /\ last' = IF hist THEN [op |-> op, sess |-> k, releases |-> rel, arg |-> arg] ELSE last
  /\ hist' = hist

VideoTracks(s) == SelectSeq(streamTracks[s], LAMBDA t : tracks[t].kind = "video")

Remove(s, x) == SelectSeq(s, LAMBDA t : t # x)

\* A continuation of `await sessionPromiseRef.current` is a microtask: once the
\* promise is settled it runs before any other event is dispatched.
Settled(k) == transport[k] \notin {"none", "connecting"}
NoMicrotask == \A i \in 1..Len(pendingStop) : ~Settled(pendingStop[i])

InitState ==
  /\ isConnecting = FALSE /\ isConnected = FALSE
  /\ rIsConnecting = FALSE /\ rIsConnected = FALSE
  /\ localStream = 0
  /\ sessionPromiseRef = 0 /\ mediaStreamRef = 0
  /\ inputAudioContextRef = 0 /\ outputAudioContextRef = 0
  /\ scriptProcessorRef = 0 /\ outputGainNodeRef = 0
  /\ nextStartTimeRef = 0 /\ audioSourcesRef = {}
  /\ videoElementRef = 0 /\ canvasElementRef = 0 /\ frameIntervalRef = 0
  /\ transcriptionsRef = <<>>
  /\ currentInputTranscriptionRef = 0 /\ currentOutputTranscriptionRef = 0
  /\ observer = [snapshot |-> <<>>, msg |-> 0]
  /\ transport = [k \in Sessions |-> "none"]
  /\ ctxState = [c \in 1..(2 * MaxSessions) |-> "none"]
  /\ ctxTime = [k \in Sessions |-> 0]
  /\ tracks = <<>>
  /\ streamTracks = [k \in Sessions |-> <<>>]
  /\ playing = {} /\ timers = {}
  /\ pendingStart = {} /\ pendingStop = <<>> /\ pendingSwitch = {} /\ pendingDecode = <<>>
  /\ pendingFrames = {}
  /\ nStarts = 0 /\ nStops = 0 /\ nSwitches = 0 /\ nMsgs = 0 /\ nSources = 0
  /\ sched = <<>> /\ lagged = FALSE /\ afterInterrupt = FALSE /\ interruptAt = 0
  /\ cleanupRuns = [k \in 0..MaxSessions |-> 0]
  /\ last = [op |-> "init", sess |-> 0, releases |-> {}, arg |-> 0]

Init == InitState /\ hist = TRUE

\* the same initial state, without the record of steps and teardown passes
InitQuiet == InitState /\ hist = FALSE

\* ------------------------------------------------------------------ cleanup
\* The release calls one pass of cleanup makes in the current state.
cleanupReleases ==
  (IF frameIntervalRef # 0 THEN {"clearInterval"} ELSE {})
  \cup (IF audioSourcesRef # {} THEN {"source.stop"} ELSE {})
  \cup (IF scriptProcessorRef # 0 THEN {"disconnect"} ELSE {})
  \cup (IF mediaStreamRef # 0 /\ streamTracks[mediaStreamRef] # <<>> THEN {"track.stop"} ELSE {})
  \cup (IF \/ inputAudioContextRef # 0 /\ ctxState[inputAudioContextRef] # "closed"
           \/ outputAudioContextRef # 0 /\ ctxState[outputAudioContextRef] # "closed"
        THEN {"context.close"} ELSE {})

\* cleanup() run on behalf of session k by step `op`, which has already made the
\* release calls `rel`; `promise` is what it leaves in sessionPromiseRef.
cleanupWith(k, op, rel, promise) ==
  /\ timers' = timers \ {frameIntervalRef}
  /\ frameIntervalRef' = 0
  /\ playing' = playing \ audioSourcesRef
  /\ audioSourcesRef' = {}
  /\ scriptProcessorRef' = 0
  /\ tracks' = [t \in DOMAIN tracks |->
                  IF mediaStreamRef # 0 /\ \E i \in DOMAIN streamTracks[mediaStreamRef] :
                                              streamTracks[mediaStreamRef][i] = t
                  THEN [tracks[t] EXCEPT !.live = FALSE] ELSE tracks[t]]
  /\ mediaStreamRef' = 0
  /\ localStream' = 0
  /\ ctxState' = [c \in DOMAIN ctxState |->
                    IF c \in {inputAudioContextRef, outputAudioContextRef} /\ ctxState[c] # "closed"
                    THEN "closed" ELSE ctxState[c]]
  /\ inputAudioContextRef' = 0
  /\ outputAudioContextRef' = 0
  /\ nextStartTimeRef' = 0
  /\ sessionPromiseRef' = promise
  /\ videoElementRef' = 0
  /\ canvasElementRef' = 0
  /\ isConnected' = FALSE
  /\ isConnecting' = FALSE
  /\ sched' = <<>> /\ lagged' = FALSE
  /\ cleanupRuns' = IF hist THEN [cleanupRuns EXCEPT ![k] = @ + 1] ELSE cleanupRuns
  /\ Record(op, k, rel \cup cleanupReleases, 0)
  /\ UNCHANGED <<streamTracks, afterInterrupt, interruptAt>>

\* mutant: cleanup without `sessionPromiseRef.current = null`
cleanupKeepsPromise(k, op, rel) == cleanupWith(k, op, rel, sessionPromiseRef)

cleanup(k, op, rel) == cleanupWith(k, op, rel, 0)

\* what a step that calls cleanup and nothing else leaves alone
cleanupFrame == UNCHANGED <<renderVars, pendingFrames, logVars, contVars, outputGainNodeRef, ctxTime,
                            nStarts, nSwitches, nMsgs, nSources>>

\* ------------------------------------------------------------------ React
\* A render: the callbacks handed to the UI now close over the committed flags.
Render ==
  /\ NoMicrotask
  /\ <<rIsConnecting, rIsConnected>> # <<isConnecting, isConnected>>
  /\ rIsConnecting' = isConnecting
  /\ rIsConnected' = isConnected
  /\ Record("render", 0, {}, 0)
  /\ UNCHANGED <<lifeVars, playVars, logVars, envVars, contVars, countVars, histVars,
                 outputGainNodeRef, transport, ctxTime, pendingFrames>>

\* ------------------------------------------------------------------ observer
\* mutant: the observer is not handed the snapshot of the message being handled
onTranscriptionUpdateLate(snapshot, n) == [snapshot |-> snapshot, msg |-> n - 1]

\* the observer is handed a copy of the log by the handler of message n
onTranscriptionUpdate(snapshot, n) == [snapshot |-> snapshot, msg |-> n]

\* ------------------------------------------------------------------ startSession
\* startSession up to `await getUserMedia`.
startSession ==
  /\ NoMicrotask
  /\ nStarts < MaxSessions
  /\ ~(rIsConnected \/ rIsConnecting)
  /\ isConnecting' = TRUE
  /\ transcriptionsRef' = <<>>
  /\ currentInputTranscriptionRef' = 0
  /\ currentOutputTranscriptionRef' = 0
  /\ observer' = onTranscriptionUpdate(<<>>, observer.msg)
  /\ nStarts' = nStarts + 1
  /\ pendingStart' = pendingStart \cup {nStarts + 1}
  /\ Record("startSession", nStarts + 1, {}, 0)
  /\ UNCHANGED <<isConnected, localStream, sessionPromiseRef, mediaStreamRef,
                 inputAudioContextRef, outputAudioContextRef, scriptProcessorRef,
                 videoElementRef, canvasElementRef, frameIntervalRef,
                 renderVars, pendingFrames, playVars, envVars, pendingStop, pendingSwitch, pendingDecode,
                 nStops, nSwitches, nMsgs, nSources, histVars,
                 outputGainNodeRef, transport, ctxTime>>

\* getUserMedia resolved: the rest of the try block, up to ai.live.connect.
startSessionResume(k) ==
  /\ NoMicrotask
  /\ k \in pendingStart
  /\ pendingStart' = pendingStart \ {k}
  /\ tracks' = tracks \o <<[kind |-> "audio", live |-> TRUE], [kind |-> "video", live |-> TRUE]>>
  /\ streamTracks' = [streamTracks EXCEPT ![k] = <<Len(tracks) + 1, Len(tracks) + 2>>]
  /\ mediaStreamRef' = k
  /\ localStream' = k
  /\ videoElementRef' = k
  /\ canvasElementRef' = k
  /\ inputAudioContextRef' = inCtx(k)
  /\ outputAudioContextRef' = outCtx(k)
  /\ ctxState' = [ctxState EXCEPT ![inCtx(k)] = "running", ![outCtx(k)] = "running"]
  /\ outputGainNodeRef' = outCtx(k)
  /\ sessionPromiseRef' = k
  /\ transport' = [transport EXCEPT ![k] = "connecting"]
  /\ Record("startSession.resume", k, {}, 0)
  /\ UNCHANGED <<isConnecting, isConnected, scriptProcessorRef, frameIntervalRef,
                 renderVars, pendingFrames, playVars, logVars, playing, timers,
                 pendingStop, pendingSwitch, pendingDecode, countVars, histVars, ctxTime>>

\* getUserMedia rejected: the catch block.
startSessionCatch(k) ==
  /\ NoMicrotask
  /\ k \in pendingStart
  /\ pendingStart' = pendingStart \ {k}
  /\ cleanup(k, "startSession.catch", {})
  /\ UNCHANGED <<renderVars, pendingFrames, logVars, pendingStop, pendingSwitch, pendingDecode,
                 outputGainNodeRef, transport, ctxTime, nStarts, nStops, nSwitches, nMsgs, nSources>>

\* ------------------------------------------------------------------ transport callbacks
startVideoFrameStreaming(k) ==
  IF videoElementRef = 0 \/ canvasElementRef = 0
  THEN UNCHANGED <<frameIntervalRef, timers>>
  ELSE /\ frameIntervalRef' = k
       /\ timers' = timers \cup {k}

onopen(k) ==
  /\ NoMicrotask
  /\ transport[k] = "connecting"
  /\ transport' = [transport EXCEPT ![k] = "open"]
  /\ isConnecting' = FALSE
  /\ isConnected' = TRUE
  /\ IF inputAudioContextRef = 0 \/ mediaStreamRef = 0
     THEN UNCHANGED <<frameIntervalRef, timers, scriptProcessorRef>>
     ELSE /\ startVideoFrameStreaming(k)
          /\ scriptProcessorRef' = k
  /\ Record("onopen", k, {}, 0)
  /\ UNCHANGED <<localStream, sessionPromiseRef, mediaStreamRef, inputAudioContextRef,
                 outputAudioContextRef, videoElementRef, canvasElementRef,
                 renderVars, pendingFrames, playVars, logVars, ctxState, tracks, streamTracks, playing,
                 contVars, countVars, histVars, outputGainNodeRef, ctxTime>>

onclose(k) ==
  /\ NoMicrotask
  /\ transport[k] \in {"open", "closing", "failed"}
  /\ transport' = [transport EXCEPT ![k] = "closed"]
  /\ cleanup(k, "onclose", {})
  /\ cleanupFrame /\ UNCHANGED nStops

onerror(k) ==
  /\ NoMicrotask
  /\ transport[k] \in {"connecting", "open", "closing"}
  /\ transport' = [transport EXCEPT ![k] = IF @ = "connecting" THEN "rejected" ELSE "failed"]
  /\ cleanup(k, "onerror", {})
  /\ cleanupFrame /\ UNCHANGED nStops

\* ------------------------------------------------------------------ stopSession
\* `await sessionPromiseRef.current` settled for session k: session.close() when it
\* resolved, the catch block when it rejected, then cleanup().
stopSessionClose(k) ==
  /\ transport' = [transport EXCEPT ![k] = IF @ = "open" THEN "closing" ELSE @]
  /\ cleanup(k, "stopSession", IF transport[k] = "rejected" THEN {} ELSE {"session.close"})

stopSession ==
  /\ NoMicrotask
  /\ nStops' = nStops + 1
  /\ IF sessionPromiseRef = 0
     THEN /\ cleanup(0, "stopSession", {})
          /\ UNCHANGED <<transport, pendingStop>>
     ELSE IF Settled(sessionPromiseRef)
     THEN /\ stopSessionClose(sessionPromiseRef)
          /\ UNCHANGED pendingStop
     ELSE /\ pendingStop' = Append(pendingStop, sessionPromiseRef)
          /\ Record("stopSession.await", sessionPromiseRef, {}, 0)
          /\ UNCHANGED <<lifeVars, playVars, envVars, histVars, transport>>
  /\ UNCHANGED <<renderVars, pendingFrames, logVars, pendingStart, pendingSwitch, pendingDecode,
                 outputGainNodeRef, ctxTime, nStarts, nSwitches, nMsgs, nSources>>

stopSessionResume ==
  /\ pendingStop # <<>>
  /\ Settled(Head(pendingStop))
  /\ pendingStop' = Tail(pendingStop)
  /\ stopSessionClose(Head(pendingStop))
  /\ UNCHANGED <<renderVars, pendingFrames, logVars, pendingStart, pendingSwitch, pendingDecode,
                 outputGainNodeRef, ctxTime, countVars>>

\* ------------------------------------------------------------------ switchCamera
\* switchCamera up to `await getUserMedia`: the old video track is stopped first.
switchCamera ==
  /\ NoMicrotask
  /\ mediaStreamRef # 0
  /\ VideoTracks(mediaStreamRef) # <<>>
  /\ LET oldTrack == Head(VideoTracks(mediaStreamRef))
     IN /\ tracks' = [tracks EXCEPT ![oldTrack].live = FALSE]
        /\ pendingSwitch' = pendingSwitch \cup {oldTrack}
        /\ Record("switchCamera", 0, {"track.stop"}, oldTrack)
  /\ nSwitches' = nSwitches + 1
  /\ UNCHANGED <<lifeVars, renderVars, pendingFrames, playVars, logVars, ctxState, streamTracks, playing, timers,
                 pendingStart, pendingStop, pendingDecode, nStarts, nStops, nMsgs, nSources,
                 histVars, outputGainNodeRef, transport, ctxTime>>

\* getUserMedia resolved: the new track replaces the old one in the main stream.
\* With mediaStreamRef.current null the removeTrack call throws and the new
\* track is left live outside every stream.
switchCameraResume(oldTrack) ==
  /\ NoMicrotask
  /\ oldTrack \in pendingSwitch
  /\ pendingSwitch' = pendingSwitch \ {oldTrack}
  /\ tracks' = Append(tracks, [kind |-> "video", live |-> TRUE])
  /\ IF mediaStreamRef = 0
     THEN /\ UNCHANGED <<streamTracks, localStream>>
          /\ Record("switchCamera.throw", 0, {}, oldTrack)
     ELSE /\ streamTracks' = [streamTracks EXCEPT ![mediaStreamRef] =
                                 Append(Remove(@, oldTrack), Len(tracks) + 1)]
          /\ localStream' = mediaStreamRef
          /\ Record("switchCamera.resume", 0, {}, oldTrack)
  /\ UNCHANGED <<isConnecting, isConnected, sessionPromiseRef, mediaStreamRef,
                 inputAudioContextRef, outputAudioContextRef, scriptProcessorRef,
                 videoElementRef, canvasElementRef, frameIntervalRef,
                 renderVars, pendingFrames, playVars, logVars, ctxState, playing, timers,
                 pendingStart, pendingStop, pendingDecode, countVars, histVars,
                 outputGainNodeRef, transport, ctxTime>>

\* getUserMedia rejected: switchCamera has no catch, nothing else runs.
switchCameraReject(oldTrack) ==
  /\ NoMicrotask
  /\ oldTrack \in pendingSwitch
  /\ pendingSwitch' = pendingSwitch \ {oldTrack}
  /\ Record("switchCamera.reject", 0, {}, oldTrack)
  /\ UNCHANGED <<lifeVars, renderVars, pendingFrames, playVars, logVars, envVars,
                 pendingStart, pendingStop, pendingDecode, countVars, histVars,
                 outputGainNodeRef, transport, ctxTime>>

\* ------------------------------------------------------------------ transcript
\* The transcript state is [log, cin, cout]: the log and the two current-slot
\* pointers, a pointer being an index into the log (0 = null).
\* Math.random().toString(36).substring(2, 9): some value of a finite space,
\* drawn anew at every call; nothing keeps two calls from returning the same one.
generateId == Ids

newEntry(id, sender) == [id |-> id, sender |-> sender, text |-> <<>>, isFinal |-> FALSE]

applyDelta(st, sender, text, id) ==
  LET cur == IF sender = "user" THEN st.cin ELSE st.cout
      log1 == IF cur = 0 THEN Append(st.log, newEntry(id, sender)) ELSE st.log
      cur1 == IF cur = 0 THEN Len(st.log) + 1 ELSE cur
      log2 == [log1 EXCEPT ![cur1].text = Append(@, text)]
  IN IF sender = "user"
     THEN [log |-> log2, cin |-> cur1, cout |-> st.cout]
     ELSE [log |-> log2, cin |-> st.cin, cout |-> cur1]

routeDelta(st, m, id) ==
  IF m.inT # None THEN applyDelta(st, "user", m.inT, id)
  ELSE IF m.outT # None THEN applyDelta(st, "ai", m.outT, id)
  ELSE st

\* mutant: the entries are finalized but the current-slot pointers are kept
completeTurnKeepsSlots(st) ==
  [log |-> [i \in DOMAIN st.log |->
              IF i \in {st.cin, st.cout} THEN [st.log[i] EXCEPT !.isFinal = TRUE] ELSE st.log[i]],
   cin |-> st.cin, cout |-> st.cout]

completeTurn(st) ==
  [log |-> [i \in DOMAIN st.log |->
              IF i \in {st.cin, st.cout} THEN [st.log[i] EXCEPT !.isFinal = TRUE] ELSE st.log[i]],
   cin |-> 0, cout |-> 0]

routeTranscript(st, m, id) ==
  LET st1 == routeDelta(st, m, id)
  IN IF m.turnComplete THEN completeTurn(st1) ELSE st1

\* ------------------------------------------------------------------ playback
scheduleFrom(clock, now) == Max(clock, now)

\* mutant: the clock is not advanced by the chunk's duration
advanceClockStuck(clock, duration) == clock

advanceClock(clock, duration) == clock + duration

\* mutant: the interruption leaves the clock where it was
resetClockKeeps(clock) == clock

resetClock(clock) == 0

currentTime(ctx) == ctxTime[ctx \div 2]

\* the interrupted block of onmessage, with `live` the live set it finds
interrupt(live) ==
  /\ playing' = playing \ live
  /\ audioSourcesRef' = {}
  /\ nextStartTimeRef' = resetClock(nextStartTimeRef)
  /\ sched' = <<>> /\ lagged' = FALSE
  /\ afterInterrupt' = TRUE

Note(m, live) == [interrupted |-> m.interrupted, live |-> live, inT |-> m.inT, outT |-> m.outT]

\* onmessage up to `await decodeAudioData`, or to its end when the message has
\* no audio to schedule.  A payload that does not decode makes the handler throw.
onmessage(k, m, id) ==
  /\ NoMicrotask
  /\ transport[k] \in {"open", "closing"}
  /\ nMsgs' = nMsgs + 1
  /\ LET st == routeTranscript([log |-> transcriptionsRef, cin |-> currentInputTranscriptionRef,
                                cout |-> currentOutputTranscriptionRef], m, id)
     IN /\ transcriptionsRef' = st.log
        /\ currentInputTranscriptionRef' = st.cin
        /\ currentOutputTranscriptionRef' = st.cout
        /\ observer' = onTranscriptionUpdate(st.log, nMsgs + 1)
  /\ IF m.audio # None /\ outputAudioContextRef # 0 /\ outputGainNodeRef # 0
     THEN /\ nextStartTimeRef' = scheduleFrom(nextStartTimeRef, currentTime(outputAudioContextRef))
          /\ lagged' = (lagged \/ (sched # <<>> /\ nextStartTimeRef < currentTime(outputAudioContextRef)))
          /\ IF m.audio = Bad
             THEN /\ UNCHANGED pendingDecode
                  /\ Record("onmessage.throw", k, {}, Note(m, audioSourcesRef))
             ELSE /\ pendingDecode' = Append(pendingDecode,
                        [sess |-> k, ctx |-> outputAudioContextRef, dur |-> m.dur,
                         interrupted |-> m.interrupted, msg |-> nMsgs + 1,
                         transcript |-> (m.inT # None \/ m.outT # None \/ m.turnComplete)])
                  /\ Record("onmessage.await", k, {}, Note(m, audioSourcesRef))
          /\ UNCHANGED <<audioSourcesRef, playing, sched, afterInterrupt, interruptAt>>
     ELSE /\ IF m.interrupted
             THEN /\ interrupt(audioSourcesRef)
                  /\ interruptAt' = IF hist THEN nMsgs + 1 ELSE interruptAt
             ELSE UNCHANGED <<playVars, playing, sched, lagged, afterInterrupt, interruptAt>>
          /\ Record("onmessage", k, IF m.interrupted /\ audioSourcesRef # {}
                                          THEN {"source.stop"} ELSE {}, Note(m, audioSourcesRef))
          /\ UNCHANGED pendingDecode
  /\ UNCHANGED <<lifeVars, renderVars, pendingFrames, ctxState, tracks, streamTracks, timers,
                 pendingStart, pendingStop, pendingSwitch, nStarts, nStops, nSwitches, nSources,
                 cleanupRuns, outputGainNodeRef, transport, ctxTime>>

\* decodeAudioData resolved for the oldest suspended handler: the source is created
\* on the context captured before the await, started at the clock as it is now and
\* added to the live set; then the interrupted block runs.
onmessageResume ==
  /\ NoMicrotask
  /\ pendingDecode # <<>>
  /\ LET p == Head(pendingDecode)
         source == nSources + 1
         startAt == nextStartTimeRef
     IN /\ pendingDecode' = Tail(pendingDecode)
        /\ nSources' = source
        /\ IF p.interrupted
           THEN /\ interrupt(audioSourcesRef \cup {source})
                /\ interruptAt' = IF hist THEN p.msg ELSE interruptAt
           ELSE /\ audioSourcesRef' = audioSourcesRef \cup {source}
                /\ playing' = playing \cup {source}
                /\ nextStartTimeRef' = advanceClock(nextStartTimeRef, p.dur)
                /\ sched' = Append(sched, [start |-> startAt, dur |-> p.dur])
                /\ afterInterrupt' = FALSE
                /\ UNCHANGED <<lagged, interruptAt>>
        /\ Record("onmessage.resume", p.sess,
                        IF p.interrupted THEN {"source.stop"} ELSE {},
                        [interrupted |-> p.interrupted, live |-> audioSourcesRef \cup {source},
                         start |-> startAt, now |-> currentTime(p.ctx), first |-> afterInterrupt,
                         msg |-> p.msg, transcript |-> p.transcript])
  /\ UNCHANGED <<lifeVars, renderVars, pendingFrames, logVars, ctxState, tracks, streamTracks, timers,
                 pendingStart, pendingStop, pendingSwitch, nStarts, nStops, nSwitches, nMsgs,
                 cleanupRuns, outputGainNodeRef, transport, ctxTime>>

\* the 'ended' listener of a source whose playback completed
ended(source) ==
  /\ NoMicrotask
  /\ source \in playing
  /\ playing' = playing \ {source}
  /\ audioSourcesRef' = audioSourcesRef \ {source}
  /\ Record("ended", 0, {}, source)
  /\ UNCHANGED <<lifeVars, renderVars, pendingFrames, nextStartTimeRef, logVars, ctxState, tracks, streamTracks,
                 timers, contVars, countVars, histVars, outputGainNodeRef, transport, ctxTime>>

\* the clock of a running output context advances
Tick(k) ==
  /\ NoMicrotask
  /\ ctxState[outCtx(k)] = "running"
  /\ ctxTime[k] < MaxTime
  /\ ctxTime' = [ctxTime EXCEPT ![k] = @ + 1]
  /\ Record("tick", k, {}, 0)
  /\ UNCHANGED <<lifeVars, renderVars, pendingFrames, playVars, logVars, envVars, contVars, countVars, histVars,
                 outputGainNodeRef, transport>>

\* ------------------------------------------------------------------ outbound sends
\* The interval callback of timer k and the toBlob callback it registers, up to
\* `await blobToBase64`: the frame goes on only when sessionPromiseRef.current is
\* set.  One frame per timer is in flight at a time.
sendFrame(k) ==
  /\ NoMicrotask
  /\ k \in timers
  /\ k \notin pendingFrames
  /\ pendingFrames' = IF sessionPromiseRef # 0 THEN pendingFrames \cup {k} ELSE pendingFrames
  /\ Record("sendFrame", k, {}, [outcome |-> IF sessionPromiseRef # 0 THEN "await" ELSE "skipped",
                                   target |-> sessionPromiseRef])
  /\ UNCHANGED <<lifeVars, renderVars, playVars, logVars, envVars, contVars, countVars, histVars,
                 outputGainNodeRef, transport, ctxTime>>

\* blobToBase64 resolved: `sessionPromiseRef.current.then(...)` is evaluated on the
\* ref as it is now.  On null it is a TypeError; otherwise the frame is sent on
\* the session of the promise the ref holds.
sendFrameResume(k) ==
  /\ NoMicrotask
  /\ k \in pendingFrames
  /\ pendingFrames' = pendingFrames \ {k}
  /\ Record("sendFrame.resume", k, {},
            [outcome |-> IF sessionPromiseRef = 0 THEN "TypeError" ELSE "sent",
             target |-> sessionPromiseRef])
  /\ UNCHANGED <<lifeVars, renderVars, playVars, logVars, envVars, contVars, countVars, histVars,
                 outputGainNodeRef, transport, ctxTime>>

\* onaudioprocess of the script processor the ref points to: the check of
\* sessionPromiseRef.current and the `.then` on it are one synchronous step, so
\* the chunk is sent on the session of the promise the ref holds at that moment.
onaudioprocess(k) ==
  /\ NoMicrotask
  /\ scriptProcessorRef = k
  /\ Record("onaudioprocess", k, {},
            [outcome |-> IF sessionPromiseRef = 0 THEN "skipped" ELSE "sent",
             target |-> sessionPromiseRef])
  /\ UNCHANGED <<lifeVars, renderVars, playVars, logVars, envVars, contVars, countVars, histVars,
                 outputGainNodeRef, transport, ctxTime, pendingFrames>>

\* ------------------------------------------------------------------ inputs
Texts == Deltas \cup {None}

TextMsgs == [inT : Texts, outT : Texts, turnComplete : BOOLEAN,
             audio : {None}, dur : {1}, interrupted : {FALSE}]

\* audio is "chunk" for a payload that decodes to a buffer of duration dur
AudioMsgs == [inT : {None}, outT : {None}, turnComplete : {FALSE},
              audio : {None, Bad}, dur : {1}, interrupted : BOOLEAN]
             \cup [inT : {None}, outT : {None}, turnComplete : {FALSE},
                   audio : {"chunk"}, dur : Durs, interrupted : BOOLEAN]

\* messages that carry transcript fields and an audio payload together
MixedMsgs == [inT : {None, "a"}, outT : {None, "b"}, turnComplete : BOOLEAN,
              audio : {None, "chunk", Bad}, dur : {1}, interrupted : {FALSE}]

\* ------------------------------------------------------------------ App.tsx
handleToggleSession ==
  IF rIsConnected THEN stopSession
  ELSE /\ ~rIsConnecting
       /\ startSession

\* ------------------------------------------------------------------ specifications
\* Session lifecycle: every exported function, every transport callback and
\* every await continuation of startSession, stopSession and switchCamera.
Next ==
  \/ Render
  \/ nStarts < LifeStarts /\ startSession
  \/ \E k \in Sessions : startSessionResume(k)
  \/ \E k \in Sessions : startSessionCatch(k)
  \/ \E k \in Sessions : onopen(k)
  \/ \E k \in Sessions : onclose(k)
  \/ \E k \in Sessions : onerror(k)
  \/ nStops < LifeStops /\ stopSession
  \/ stopSessionResume
  \/ nSwitches < MaxSwitches /\ switchCamera
  \/ \E t \in pendingSwitch : switchCameraResume(t)
  \/ \E t \in pendingSwitch : switchCameraReject(t)

Spec == Init /\ [][Next]_vars

\* Transcript: the hook driven the way App.tsx drives it (handleToggleSession
\* starts a session when the rendered flags are both false and stops it when the
\* rendered isConnected is true, here at most once per session started), in any
\* interleaving with the transport callbacks and with inbound messages that carry
\* transcript fields.
NextLog ==
  \/ Render
  \/ nStarts < LogStarts /\ ~rIsConnected /\ handleToggleSession
  \/ \E k \in Sessions : startSessionResume(k)
  \/ \E k \in Sessions : onopen(k)
  \/ \E k \in Sessions : onclose(k)
  \/ \E k \in Sessions : onerror(k)
  \/ nStops < nStarts /\ rIsConnected /\ handleToggleSession
  \/ \E k \in Sessions, m \in TextMsgs, id \in generateId : nMsgs < MaxMsgs /\ onmessage(k, m, id)

SpecLog == InitQuiet /\ [][NextLog]_vars

\* Playback: one session from startSession to its teardown, inbound messages that
\* carry audio and interruptions, and the output context's clock.
NextPlay ==
  \/ Render
  \/ nStarts = 0 /\ startSession
  \/ startSessionResume(1)
  \/ onopen(1)
  \/ onclose(1)
  \/ \E m \in AudioMsgs, id \in generateId : nMsgs < MaxChunks /\ onmessage(1, m, id)
  \/ onmessageResume
  \/ \E s \in playing : ended(s)
  \/ Tick(1)

SpecPlay == Init /\ [][NextPlay]_vars

\* The lifecycle with the scheduling the event loop guarantees: the continuation
\* of a settled `await sessionPromiseRef.current` is run.  Nothing makes the
\* transport settle its connection, acknowledge a close or report an error.
SpecLive == Init /\ [][Next]_vars /\ WF_vars(stopSessionResume)

\* Two sessions: the lifecycle of the hook when startSession passes its guard
\* twice, with the callbacks of both transports.
NextRace ==
  \/ Render
  \/ nStarts < RaceStarts /\ startSession
  \/ \E k \in Sessions : startSessionResume(k)
  \/ \E k \in Sessions : startSessionCatch(k)
  \/ \E k \in Sessions : onopen(k)
  \/ \E k \in Sessions : onclose(k)
  \/ \E k \in Sessions : onerror(k)
  \/ nStops < RaceStops /\ stopSession
  \/ stopSessionResume
  \/ \E k \in Sessions : sendFrame(k)
  \/ \E k \in Sessions : sendFrameResume(k)
  \/ \E k \in Sessions : onaudioprocess(k)
  \/ \E k \in Sessions, m \in TextMsgs, id \in generateId : nMsgs < RaceMsgs /\ onmessage(k, m, id)

SpecRace == Init /\ [][NextRace]_vars

\* One session whose inbound messages carry transcript fields and audio together.
\* decodeAudioData is awaited on a payload that is there in full: its promise
\* settles, and the event loop then runs the handler's continuation.
NextMix ==
  \/ Render
  \/ nStarts = 0 /\ startSession
  \/ startSessionResume(1)
  \/ onopen(1)
  \/ onclose(1)
  \/ \E m \in MixedMsgs, id \in generateId : nMsgs < MaxMix /\ onmessage(1, m, id)
  \/ onmessageResume

SpecMix == Init /\ [][NextMix]_vars /\ WF_vars(onmessageResume)

\* Sessions one after another: startSession is called from a render that has the
\* committed status flags, so the second call passes the guard only once a
\* teardown pass has reset them.
Rendered == <<rIsConnecting, rIsConnected>> = <<isConnecting, isConnected>>

NextSeq ==
  \/ Render
  \/ nStarts < RaceStarts /\ Rendered /\ startSession
  \/ \E k \in Sessions : startSessionResume(k)
  \/ \E k \in Sessions : startSessionCatch(k)
  \/ \E k \in Sessions : onopen(k)
  \/ \E k \in Sessions : onclose(k)
  \/ \E k \in Sessions : onerror(k)
  \/ nStops < RaceStops /\ stopSession
  \/ stopSessionResume
  \/ \E k \in Sessions, m \in TextMsgs, id \in generateId : nMsgs < RaceMsgs /\ onmessage(k, m, id)

SpecSeq == Init /\ [][NextSeq]_vars

\* ------------------------------------------------------------------ claims
log == transcriptionsRef

Finished(step) == step.op \in {"onmessage", "onmessage.resume", "onmessage.throw"}

\* C1: in one session, for the chunks started since the last interruption or
\* teardown, as long as the clock was never behind the output context's
\* currentTime after the first of them, the k-th chunk is started at the start
\* time of the first plus the durations of the k-1 chunks before it.
C1_Gapless ==
  ~lagged => \A i \in 1..Len(sched) : sched[i].start = sched[1].start + SumDur(sched, i - 1)

C1_Witness ==
  /\ ~lagged /\ Len(sched) = 3
  /\ sched[1].start > 0
  /\ sched[1].dur # sched[2].dur

\* C2: in one session, the first chunk started after an interruption was handled
\* begins at the currentTime of its output context: the time it is started with
\* is not later than that currentTime.
C2_StartsNow ==
  (last.op = "onmessage.resume" /\ last.arg.first)
    => Max(last.arg.start, last.arg.now) = last.arg.now

C2_Witness ==
  /\ last.op = "onmessage.resume" /\ last.arg.first /\ ~last.arg.interrupted
  /\ nSources >= 2
  /\ last.arg.now > 0

\* C3: once the handler of a message with interrupted = true has finished, every
\* source that was in the live set is stopped, the live set is empty and the
\* playback clock is 0, also when the message carries an audio payload.
C3_InterruptedFlushes ==
  (Finished(last) /\ last.arg.interrupted)
    => /\ audioSourcesRef = {}
       /\ nextStartTimeRef = 0
       /\ last.arg.live \cap playing = {}

\* C4: a user entry created after an earlier user entry was finalized has an id
\* other than that entry's.
C4_LaterDeltaNewId ==
  \A i, j \in DOMAIN log :
    (i < j /\ log[i].sender = "user" /\ log[j].sender = "user" /\ log[i].isFinal)
      => log[j].id # log[i].id

\* C5: a log of one user entry and one ai entry, both finalized by turnComplete,
\* holds two different ids.
C5_TwoSendersTwoIds ==
  (/\ Len(log) = 2
   /\ log[1].sender # log[2].sender
   /\ log[1].isFinal /\ log[2].isFinal
   /\ currentInputTranscriptionRef = 0 /\ currentOutputTranscriptionRef = 0)
    => log[1].id # log[2].id

\* C6: in every reachable state every entry with isFinal = false is the one its
\* sender's current-slot pointer refers to (so there is at most one per sender),
\* and a pointer that is set refers to a non-final entry of its sender.
Slot(sender) ==
  IF sender = "user" THEN currentInputTranscriptionRef ELSE currentOutputTranscriptionRef

C6_OneOpenEntryPerSender ==
  /\ \A i \in DOMAIN log : ~log[i].isFinal => Slot(log[i].sender) = i
  /\ \A sender \in {"user", "ai"} :
       Slot(sender) # 0 => /\ Slot(sender) \in DOMAIN log
                           /\ log[Slot(sender)].sender = sender
                           /\ ~log[Slot(sender)].isFinal

C6_Witness ==
  /\ nStarts = 2
  /\ currentInputTranscriptionRef # 0 /\ currentOutputTranscriptionRef # 0
  /\ Len(log[currentInputTranscriptionRef].text) + Len(log[currentOutputTranscriptionRef].text) = 2

\* C7: while switchCamera awaits the new device, the old video track is live.
C7_OldTrackLiveWhilePending == \A t \in pendingSwitch : tracks[t].live

\* C8: after switchCamera failed to acquire the new device, the original video
\* track is live and in the active stream, and so is the audio track.
C8_FailedSwitchKeepsTrack ==
  (last.op = "switchCamera.reject" /\ mediaStreamRef # 0)
    => /\ tracks[last.arg].live
       /\ \E i \in DOMAIN streamTracks[mediaStreamRef] : streamTracks[mediaStreamRef][i] = last.arg
       /\ \A i \in DOMAIN streamTracks[mediaStreamRef] : tracks[streamTracks[mediaStreamRef][i]].live

\* C9: a stopSession call that directly follows a completed stopSession makes no
\* release call and leaves the program's state as it was.
C9_SecondStopNoOp ==
  [][(last.op = "stopSession" /\ nStops' = nStops + 1)
       => (last'.releases = {} /\ UNCHANGED progVars)]_vars

C9_Witness ==
  /\ nStops = 2 /\ last.op = "stopSession" /\ last.releases = {}
  /\ transport[1] = "closing"
  /\ cleanupRuns[1] = 1

\* C10: for every session, cleanup runs at most once on its behalf, whichever of
\* stopSession, onclose and onerror fire.
C10_OneTeardownPass == \A k \in Sessions : cleanupRuns[k] <= 1

\* C11: at most one session holds resources at any time: a pending device
\* acquisition, a live capture track, a running audio context or a transport
\* that is connecting or open.
Holds(k) ==
  \/ k \in pendingStart
  \/ \E i \in DOMAIN streamTracks[k] : tracks[streamTracks[k][i]].live
  \/ ctxState[inCtx(k)] = "running" \/ ctxState[outCtx(k)] = "running"
  \/ transport[k] \in {"connecting", "open"}

C11_OneSessionAtATime == Cardinality({k \in Sessions : Holds(k)}) <= 1

\* C12: the handler of a message delivers the log, with the message's transcript
\* update applied, to the observer before the message's audio chunk is started:
\* every handler suspended at its decode, and the handler that has just started
\* its chunk, belongs to a message the observer has already been notified for,
\* and the observer's snapshot is the log.  And every chunk whose decode was
\* begun is eventually started.
C12_Order ==
  /\ \A i \in DOMAIN pendingDecode : observer.msg >= pendingDecode[i].msg
  /\ last.op = "onmessage.resume" => observer.msg >= last.arg.msg
  /\ observer.snapshot = transcriptionsRef

C12_TranscriptThenAudio ==
  /\ []C12_Order
  /\ \A n \in 1..MaxMix : (nSources + Len(pendingDecode) >= n) ~> (nSources >= n)

C12_Witness ==
  /\ last.op = "onmessage.resume" /\ last.arg.transcript /\ last.arg.msg = 2
  /\ Len(transcriptionsRef) = 2
  /\ transcriptionsRef[2].isFinal
  /\ nSources = 2

\* C13: every stopSession call that is waiting for the session promise eventually
\* goes on to its teardown, whatever the transport does.
C13_StopReachesTeardown == (pendingStop # <<>>) ~> (pendingStop = <<>>)

\* C14: the handler of a message whose audio payload does not decode leaves the
\* playback clock and the live set as they were when the message has no
\* interrupted flag, and handles the interruption (live set flushed, clock 0)
\* when it has one.
C14_DecodeFailureDropsChunkOnly ==
  [][last'.op = "onmessage.throw"
       => IF last'.arg.interrupted
          THEN audioSourcesRef' = {} /\ nextStartTimeRef' = 0
          ELSE UNCHANGED <<nextStartTimeRef, audioSourcesRef>>]_vars

\* C15: a video frame whose encoding was begun by session k's timer is, when the
\* encoding completes, sent on session k's transport or dropped: it is not sent
\* on another session's transport and the send does not fail on a null handle.
C15_LateSendDiscarded ==
  last.op = "sendFrame.resume"
    => /\ last.arg.outcome # "TypeError"
       /\ last.arg.outcome = "sent" => last.arg.target = last.sess

\* C16: the handler of an inbound message begins only when the handler of every
\* earlier message has finished: none is suspended at its decode with its chunk
\* still to be started and the clock still to be advanced.
C16_OneHandlerAtATime == [][nMsgs' = nMsgs + 1 => pendingDecode = <<>>]_vars

\* C17: the handler of a message appends each transcription it carries to the
\* text of its sender: for each sender, the deltas held by the sender's entries,
\* in log order, are those held before the message followed by the message's
\* delta for that sender, also when the message carries one for each sender.
RECURSIVE TextOf(_, _)
TextOf(entries, sender) ==
  IF entries = <<>> THEN <<>>
  ELSE (IF Head(entries).sender = sender THEN Head(entries).text ELSE <<>>)
         \o TextOf(Tail(entries), sender)

DeltaOf(note, sender) ==
  LET text == IF sender = "user" THEN note.inT ELSE note.outT
  IN IF text = None THEN <<>> ELSE <<text>>

C17_NoDeltaLost ==
  [][nMsgs' = nMsgs + 1
       => \A sender \in {"user", "ai"} :
            TextOf(transcriptionsRef', sender)
              = TextOf(transcriptionsRef, sender) \o DeltaOf(last'.arg, sender)]_vars

\* C18: a chunk that is started and added to the live set belongs to a message
\* that arrived after the interruption handled last.
C18_NoChunkFromBeforeInterrupt ==
  (last.op = "onmessage.resume" /\ ~last.arg.interrupted) => last.arg.msg > interruptAt

\* C19: with sessions started one after another, a transport callback of a
\* session that was torn down, fired after the next session was started, leaves the capture tracks, the audio contexts, the
\* transport handle, the status flags and the transcript log as they are.
C19_StaleCallbackHarmless ==
  [][(/\ last'.op \in {"onopen", "onclose", "onerror",
                        "onmessage", "onmessage.await", "onmessage.throw"}
      /\ last'.sess \in Sessions
      /\ cleanupRuns[last'.sess] >= 1
      /\ nStarts > last'.sess)
       => UNCHANGED <<tracks, ctxState, sessionPromiseRef, isConnected, isConnecting,
                      transcriptionsRef>>]_vars

\* C20: once a teardown pass has run for the one session that is started, the
\* state is released and stays so: no capture track is live, no timer is active,
\* the live set is empty, the playback clock is 0 and both status flags are false.
Released ==
  /\ \A t \in DOMAIN tracks : ~tracks[t].live
  /\ timers = {}
  /\ audioSourcesRef = {}
  /\ nextStartTimeRef = 0
  /\ ~isConnected /\ ~isConnecting

C20_TeardownTotal == cleanupRuns[1] >= 1 => Released

====
